---- MODULE Spec2Model ----
(***************************************************************************)
(* Budget tracker backend: users (register / login / refresh / me /       *)
(* logout / user resource) and the owner-scoped budget resource, as a     *)
(* state machine over the relational store and the tokens the clients     *)
(* hold.  Every request handler is one action; the register and           *)
(* user-update handlers are also available split into their two store     *)
(* accesses (validation queries, then the write) so that concurrent       *)
(* requests can interleave between them.                                  *)
(***************************************************************************)
EXTENDS Integers, Sequences, FiniteSets, Bags, TLC

VARIABLES
    users,          \* rows of table users: [id, username, email, password]
    budgets,        \* rows of table budgets
    blacklist,      \* rows of table token_blacklist, in insertion order
    nextUserId,     \* users primary key sequence
    nextBudgetId,   \* budgets primary key sequence
    now,            \* server clock
    inflight,       \* bag of requests that passed validation and have not written yet
    issued,         \* the tokens the server has signed so far, held by the clients
    req,            \* the request handled by the last step
    resp            \* the response to it

vars == <<users, budgets, blacklist, nextUserId, nextBudgetId, now, inflight, issued, req, resp>>

----------------------------------------------------------------------------
(* Bounds of the model *)

MaxUsers == 2
MaxBudgets == 2
MaxBlacklist == 2
MaxInflight == 2
MaxPad == 1
MaxIssued == 4
MaxTime == 3

(* Program constants *)

MaxTitleLen == 255
MaxDigits == 10
DecimalPlaces == 2
MinPasswordLen == 8
CapWhole == 999999999
CapFrac == 99

----------------------------------------------------------------------------
(* Strings with whitespace are sequences of characters *)

Whitespace == {" "}

RECURSIVE LStrip(_)
LStrip(s) == IF s = <<>> THEN s
             ELSE IF Head(s) \in Whitespace THEN LStrip(Tail(s)) ELSE s

RECURSIVE RStrip(_)
RStrip(s) == IF s = <<>> THEN s
             ELSE IF s[Len(s)] \in Whitespace THEN RStrip(SubSeq(s, 1, Len(s) - 1)) ELSE s

\* str.strip()
Strip(s) == RStrip(LStrip(s))

Rep(c, n) == [i \in 1..n |-> c]

\* l blanks, n letters, r blanks
Padded(l, n, r) == Rep(" ", l) \o Rep("a", n) \o Rep(" ", r)

----------------------------------------------------------------------------
(* Decimal amounts with two decimal places: sign, whole part, hundredths *)

Dec(neg, whole, frac) == [neg |-> neg, whole |-> whole, frac |-> frac]

\* A submitted amount that is not a number
NotANumber == [text |-> "not_a_number"]

IsZero(v) == v.whole = 0 /\ v.frac = 0

\* -1, 0, 1 as v is below, equal to, above the two-place decimal whole.frac
Cmp(v, whole, frac) ==
    IF v.neg /\ ~IsZero(v) THEN -1
    ELSE IF v.whole < whole THEN -1
    ELSE IF v.whole > whole THEN 1
    ELSE IF v.frac < frac THEN -1
    ELSE IF v.frac > frac THEN 1
    ELSE 0

\* A binary double written as a decimal literal: the double nearest to
\* whole.frac, which lies strictly above it when `above` (and below the next
\* hundredth).  0.01 is 0.01000000000000000020816...; 999999999.99 is
\* 999999999.9900000095...
Float(whole, frac, above) == [whole |-> whole, frac |-> frac, above |-> above]

\* Decimal < float, compared exactly as Python does
LtFloat(v, f) == \/ Cmp(v, f.whole, f.frac) < 0
                 \/ Cmp(v, f.whole, f.frac) = 0 /\ f.above

\* Decimal > float
GtFloat(v, f) == Cmp(v, f.whole, f.frac) > 0

RECURSIVE Digits(_)
Digits(n) == IF n < 10 THEN 1 ELSE 1 + Digits(n \div 10)

\* len(digittuple) of Decimal("whole.frac") with two places written
DigitTuple(v) == IF v.whole > 0 THEN Digits(v.whole) + DecimalPlaces
                 ELSE IF v.frac >= 10 THEN 2 ELSE 1

----------------------------------------------------------------------------
(* Field validation of BudgetSerializer *)

Invalid == [ok |-> FALSE]
Valid(v) == [ok |-> TRUE, value |-> v]

\* BudgetSerializer.validate_title
validate_title(value) ==
    IF value = <<>> \/ Strip(value) = <<>> THEN Invalid
    ELSE IF Len(value) > 255 THEN Invalid
    ELSE Valid(Strip(value))

\* Mutant: the title is stored as submitted
TitleFieldUntrimmed(data) ==
    IF Strip(data) = <<>> THEN Invalid
    ELSE IF Len(data) > MaxTitleLen THEN Invalid
    ELSE Valid(data)

\* The serializer field built for Budget.title (a CharField with
\* max_length=255, whitespace trimmed before validators run), followed by
\* validate_title on its result
TitleField(data) ==
    IF data = <<>> \/ Strip(data) = <<>> THEN Invalid
    ELSE IF Len(Strip(data)) > MaxTitleLen THEN Invalid
    ELSE validate_title(Strip(data))

\* Budget.description: TextField(blank=True), trimmed, never rejected
DescriptionField(data) == Valid(Strip(data))

\* MinValueValidator(0.01): the limit is a float literal
MinValue == Float(0, 1, TRUE)

\* BudgetSerializer.validate_initial_amount; 999999999.99 is a float literal
validate_initial_amount(value) ==
    IF Cmp(value, 0, 0) <= 0 THEN Invalid
    ELSE IF GtFloat(value, Float(CapWhole, CapFrac, TRUE)) THEN Invalid
    ELSE Valid(value)

\* DecimalField.validate_precision for max_digits=10, decimal_places=2
PrecisionOk(v) ==
    LET n == DigitTuple(v)
        total == IF n > DecimalPlaces THEN n ELSE DecimalPlaces
        whole == IF n > DecimalPlaces THEN n - DecimalPlaces ELSE 0
    IN  total <= MaxDigits /\ whole <= MaxDigits - DecimalPlaces

\* Mutant: only the upper limit of validate_initial_amount is enforced
AmountFieldNoLowerLimit(data) ==
    IF data = NotANumber THEN Invalid
    ELSE IF GtFloat(data, Float(CapWhole, CapFrac, TRUE)) THEN Invalid
    ELSE Valid(data)

\* The serializer field built for Budget.initial_amount (a DecimalField with
\* max_digits=10, decimal_places=2, min_value=0.01), followed by
\* validate_initial_amount on its result
AmountField(data) ==
    IF data = NotANumber THEN Invalid
    ELSE IF ~PrecisionOk(data) THEN Invalid
    ELSE IF LtFloat(data, MinValue) THEN Invalid
    ELSE validate_initial_amount(data)

\* BudgetSerializer.validate_date: a parsed date is never falsy
validate_date(value) == Valid(value)

\* The calendar: the dates the model uses, in order
DateOrd == ("2026-01-01" :> 1) @@ ("2026-02-15" :> 2)

\* The serializer field built for Budget.date (YYYY-MM-DD must parse),
\* followed by validate_date
DateField(data) == IF data \notin DOMAIN DateOrd THEN Invalid ELSE validate_date(data)

WritableFields == {"title", "description", "date", "initial_amount"}
RequiredFields == {"title", "date", "initial_amount"}

Field(name, data) ==
    CASE name = "title" -> TitleField(data)
      [] name = "description" -> DescriptionField(data)
      [] name = "date" -> DateField(data)
      [] name = "initial_amount" -> AmountField(data)

\* serializer.errors: the fields of payload p that fail; a PATCH (partial)
\* does not require absent fields.  Read-only fields are never looked at.
Errors(p, partial) ==
    {f \in WritableFields :
        IF f \in DOMAIN p THEN ~Field(f, p[f]).ok
        ELSE ~partial /\ f \in RequiredFields}

\* Mutant: no field is read-only, what the client sends for id, user and
\* created_at is taken as it is
ValidatedDataAnyField(p) ==
    [f \in DOMAIN p |-> IF f \in WritableFields THEN Field(f, p[f]).value ELSE p[f]]

\* serializer.validated_data: the cleaned writable fields that were sent
ValidatedData(p) ==
    [f \in (DOMAIN p) \cap WritableFields |-> Field(f, p[f]).value]

----------------------------------------------------------------------------
(* Tokens: signed, so the server keeps no record of the ones it issued *)

Token(typ, uid, exp) == [typ |-> typ, uid |-> uid, exp |-> exp]
NoToken == Token("none", 0, 0)
Garbage == Token("garbage", 0, 0)
\* The empty string sent where a token is expected
Blank == Token("blank", 0, 0)

UserIds == {u.id : u \in users}
UserById(id) == CHOOSE u \in users : u.id = id

\* Mutant: any unexpired token of an existing user is accepted
AuthenticateAnyType(tok) ==
    IF tok.exp > now /\ tok.uid \in UserIds THEN tok.uid ELSE 0

\* Mutant: the tokens of a user who has a refresh token in the blacklist are
\* refused
AuthenticateNotLoggedOut(tok) ==
    IF /\ tok.typ = "access" /\ tok.exp > now /\ tok.uid \in UserIds
       /\ \A i \in 1..Len(blacklist) : blacklist[i].token.uid # tok.uid
    THEN tok.uid ELSE 0

\* JWT authentication and IsAuthenticated: the id of the user the bearer
\* token authenticates, 0 when the request is answered 401
Authenticate(tok) ==
    IF tok.typ = "access" /\ tok.exp > now /\ tok.uid \in UserIds THEN tok.uid ELSE 0

\* Mutant: the type claim of the token is not checked
RefreshTokenOkAnyType(tok) == tok.typ \in {"refresh", "access"} /\ tok.exp > now

\* Mutant: the expiry claim of the token is not checked
RefreshTokenOkNoExpiry(tok) == tok.typ = "refresh"

\* Mutant: a token that is in the blacklist is refused
RefreshTokenOkNotRevoked(tok) ==
    /\ tok.typ = "refresh" /\ tok.exp > now
    /\ \A i \in 1..Len(blacklist) : blacklist[i].token # tok

\* RefreshToken(refresh_token): does the constructor accept the token
RefreshTokenOk(tok) == tok.typ = "refresh" /\ tok.exp > now

----------------------------------------------------------------------------
(* Requests and responses *)

Request(op, tok, id, payload) == [op |-> op, tok |-> tok, id |-> id, payload |-> payload]
Response(status, keys, data) == [status |-> status, keys |-> keys, data |-> data]
NoData == <<>>
Empty == <<>>

Unauthenticated == Response(401, {}, NoData)
NotFound == Response(404, {}, NoData)

----------------------------------------------------------------------------
(* Budget resource *)

\* Mutant: the queryset is not filtered by owner
get_queryset_all(user) == budgets

\* BudgetViewSet.get_queryset
get_queryset(user) == {b \in budgets : b.user = user}

\* Mutant: the row is looked up among all budgets
LookupAny(user, id) == {b \in budgets : b.id = id}

\* get_object(): the row of the queryset with this primary key, if any
Lookup(user, id) == {b \in get_queryset(user) : b.id = id}

Apply(b, data) ==
    [f \in DOMAIN b |-> IF f \in DOMAIN data THEN data[f] ELSE b[f]]

\* Mutant: the owner is taken from the payload when it names one
perform_create_payload_user(user, p) ==
    [id |-> nextBudgetId,
     user |-> IF "user" \in DOMAIN p THEN p["user"] ELSE user,
     title |-> ValidatedData(p)["title"],
     description |-> IF "description" \in DOMAIN p THEN ValidatedData(p)["description"] ELSE <<>>,
     date |-> ValidatedData(p)["date"],
     initial_amount |-> ValidatedData(p)["initial_amount"],
     created_at |-> now]

\* BudgetViewSet.perform_create: serializer.save(user=request.user) inserts
\* the validated data with the owner set to the requesting user
perform_create(user, p) ==
    [id |-> nextBudgetId,
     user |-> user,
     title |-> ValidatedData(p)["title"],
     description |-> IF "description" \in DOMAIN p THEN ValidatedData(p)["description"] ELSE <<>>,
     date |-> ValidatedData(p)["date"],
     initial_amount |-> ValidatedData(p)["initial_amount"],
     created_at |-> now]

\* Mutant: the owner is taken from the payload when it names one
perform_update_payload_user(user, b, p) ==
    [Apply(b, ValidatedData(p)) EXCEPT !.user = IF "user" \in DOMAIN p THEN p["user"] ELSE user]

\* BudgetViewSet.perform_update: serializer.save(user=request.user) writes the
\* validated data over the row, with the owner set to the requesting user
perform_update(user, b, p) ==
    [Apply(b, ValidatedData(p)) EXCEPT !.user = user]

\* Mutant: the rows are ordered by date only
PrecedesDateOnly(a, b) == DateOrd[a.date] >= DateOrd[b.date]

\* Budget.Meta.ordering = ['-date', '-created_at']: may row a precede row b
Precedes(a, b) ==
    \/ DateOrd[a.date] > DateOrd[b.date]
    \/ DateOrd[a.date] = DateOrd[b.date] /\ a.created_at >= b.created_at

\* The orders in which the store may return the rows of S
Orderings(S) ==
    {s \in [1..Cardinality(S) -> S] :
        /\ \A i, j \in 1..Cardinality(S) : i # j => s[i] # s[j]
        /\ \A i, j \in 1..Cardinality(S) : i < j => Precedes(s[i], s[j])}

\* GET /api/budgets/
list(tok) ==
    /\ req' = Request("list", tok, 0, Empty)
    /\ IF Authenticate(tok) = 0 THEN resp' = Unauthenticated
       ELSE \E s \in Orderings(get_queryset(Authenticate(tok))) :
                resp' = Response(200, {}, [count |-> Len(s), results |-> s])
    /\ UNCHANGED <<users, budgets, blacklist, nextUserId, nextBudgetId, now, inflight, issued>>

\* POST /api/budgets/
create(tok, p) ==
    /\ nextBudgetId <= MaxBudgets
    /\ req' = Request("create", tok, 0, p)
    /\ LET user == Authenticate(tok) IN
       IF user = 0 THEN
            /\ resp' = Unauthenticated
            /\ UNCHANGED <<budgets, nextBudgetId>>
       ELSE IF Errors(p, FALSE) # {} THEN
            /\ resp' = Response(400, Errors(p, FALSE), NoData)
            /\ UNCHANGED <<budgets, nextBudgetId>>
       ELSE /\ budgets' = budgets \cup {perform_create(user, p)}
            /\ nextBudgetId' = nextBudgetId + 1
            /\ resp' = Response(201, {}, perform_create(user, p))
    /\ UNCHANGED <<users, blacklist, nextUserId, now, inflight, issued>>

\* GET /api/budgets/{id}/
retrieve(tok, id) ==
    /\ req' = Request("retrieve", tok, id, Empty)
    /\ LET user == Authenticate(tok) IN
       resp' = IF user = 0 THEN Unauthenticated
               ELSE IF Lookup(user, id) = {} THEN NotFound
               ELSE Response(200, {}, CHOOSE b \in Lookup(user, id) : TRUE)
    /\ UNCHANGED <<users, budgets, blacklist, nextUserId, nextBudgetId, now, inflight, issued>>

\* PUT (partial = FALSE) and PATCH (partial = TRUE) /api/budgets/{id}/
update(tok, id, p, partial) ==
    /\ req' = Request(IF partial THEN "patch" ELSE "put", tok, id, p)
    /\ LET user == Authenticate(tok) IN
       IF user = 0 THEN
            /\ resp' = Unauthenticated
            /\ UNCHANGED budgets
       ELSE IF Lookup(user, id) = {} THEN
            /\ resp' = NotFound
            /\ UNCHANGED budgets
       ELSE IF Errors(p, partial) # {} THEN
            /\ resp' = Response(400, Errors(p, partial), NoData)
            /\ UNCHANGED budgets
       ELSE LET b == CHOOSE x \in Lookup(user, id) : TRUE IN
            /\ budgets' = (budgets \ {b}) \cup {perform_update(user, b, p)}
            /\ resp' = Response(200, {}, perform_update(user, b, p))
    /\ UNCHANGED <<users, blacklist, nextUserId, nextBudgetId, now, inflight, issued>>

\* PUT and PATCH /api/budgets/{id}/ up to the end of serializer.is_valid():
\* get_object has fetched the row
update_fetch(tok, id, p, partial) ==
    /\ req' = Request(IF partial THEN "patch" ELSE "put", tok, id, p)
    /\ LET user == Authenticate(tok) IN
       IF user = 0 THEN
            /\ resp' = Unauthenticated
            /\ UNCHANGED inflight
       ELSE IF Lookup(user, id) = {} THEN
            /\ resp' = NotFound
            /\ UNCHANGED inflight
       ELSE IF Errors(p, partial) # {} THEN
            /\ resp' = Response(400, Errors(p, partial), NoData)
            /\ UNCHANGED inflight
       ELSE /\ BagCardinality(inflight) < MaxInflight
            /\ inflight' = inflight (+)
                    SetToBag({Request(IF partial THEN "patch" ELSE "put", tok, id, p)
                              @@ [instance |-> CHOOSE x \in Lookup(user, id) : TRUE]})
            /\ resp' = [status |-> 0, keys |-> {}, data |-> NoData]
    /\ UNCHANGED <<users, budgets, blacklist, nextUserId, nextBudgetId, now, issued>>

\* PUT and PATCH /api/budgets/{id}/ from perform_update on: the instance
\* fetched by get_object is written back, all its fields, with the validated
\* fields set, as an UPDATE of the row with its id, or as an INSERT when that
\* row is gone
update_save(r) ==
    /\ BagIn(r, inflight)
    /\ r.op \in {"put", "patch"}
    /\ LET row == perform_update(r.instance.user, r.instance, r.payload) IN
       /\ req' = Request(IF r.op = "put" THEN "put_save" ELSE "patch_save", r.tok, r.id, r.payload)
       /\ budgets' = {b \in budgets : b.id # r.id} \cup {row}
       /\ resp' = Response(200, {}, row)
    /\ inflight' = inflight (-) SetToBag({r})
    /\ UNCHANGED <<users, blacklist, nextUserId, nextBudgetId, now, issued>>

\* Mutant: the whole queryset of the user is deleted
destroy_queryset(tok, id) ==
    /\ req' = Request("delete", tok, id, Empty)
    /\ LET user == Authenticate(tok) IN
       IF user = 0 THEN
            /\ resp' = Unauthenticated
            /\ UNCHANGED budgets
       ELSE IF Lookup(user, id) = {} THEN
            /\ resp' = NotFound
            /\ UNCHANGED budgets
       ELSE /\ budgets' = budgets \ get_queryset(user)
            /\ resp' = Response(204, {}, NoData)
    /\ UNCHANGED <<users, blacklist, nextUserId, nextBudgetId, now, inflight, issued>>

\* DELETE /api/budgets/{id}/
destroy(tok, id) ==
    /\ req' = Request("delete", tok, id, Empty)
    /\ LET user == Authenticate(tok) IN
       IF user = 0 THEN
            /\ resp' = Unauthenticated
            /\ UNCHANGED budgets
       ELSE IF Lookup(user, id) = {} THEN
            /\ resp' = NotFound
            /\ UNCHANGED budgets
       ELSE /\ budgets' = budgets \ Lookup(user, id)
            /\ resp' = Response(204, {}, NoData)
    /\ UNCHANGED <<users, blacklist, nextUserId, nextBudgetId, now, inflight, issued>>

----------------------------------------------------------------------------
(* Users *)

Email(local, domain) == [local |-> local, domain |-> domain]

LowerCase == ("x.com" :> "x.com") @@ ("X.com" :> "x.com")

\* BaseUserManager.normalize_email: the domain part is lowercased
normalize_email(e) == [e EXCEPT !.domain = LowerCase[e.domain]]

\* make_password: a hash that only the same password matches
Hash(password) == <<"hash", password>>

\* UserRegistrationSerializer.validate_username
validate_username(value) ==
    IF \E u \in users : u.username = value THEN Invalid ELSE Valid(value)

\* UserRegistrationSerializer.validate_email
validate_email(value) ==
    IF \E u \in users : u.email = value THEN Invalid ELSE Valid(value)

\* The password strength policy (validate_password): at least 8 characters
validate_password(value) == Len(value) >= 8

\* The two password fields: min_length=8, and the policy on `password`
PasswordField(value) ==
    IF Len(value) < MinPasswordLen \/ ~validate_password(value) THEN Invalid ELSE Valid(value)

PasswordConfirmField(value) ==
    IF Len(value) < MinPasswordLen THEN Invalid ELSE Valid(value)

\* UserRegistrationSerializer.validate
validate(data) ==
    IF data.password # data.password_confirm THEN {"password_confirm"} ELSE {}

\* Mutant: password_confirm is not compared with password
RegistrationErrorsNoConfirm(p) ==
    {f \in {"username"} : ~validate_username(p.username).ok}
    \cup {f \in {"email"} : ~validate_email(p.email).ok}
    \cup {f \in {"password"} : ~PasswordField(p.password).ok}
    \cup {f \in {"password_confirm"} : ~PasswordConfirmField(p.password_confirm).ok}

\* serializer.errors of UserRegistrationSerializer: the field errors, and
\* when there is none the errors of validate
RegistrationErrors(p) ==
    LET fields ==
            {f \in {"username"} : ~validate_username(p.username).ok}
            \cup {f \in {"email"} : ~validate_email(p.email).ok}
            \cup {f \in {"password"} : ~PasswordField(p.password).ok}
            \cup {f \in {"password_confirm"} : ~PasswordConfirmField(p.password_confirm).ok}
    IN  IF fields # {} THEN fields ELSE validate(p)

\* UserRegistrationSerializer.create: the row create_user builds
NewUser(p) ==
    [id |-> nextUserId, username |-> p.username,
     email |-> normalize_email(p.email), password |-> Hash(p.password)]

\* Mutant: the store accepts any row
UniqueOkNone(row) == TRUE

\* The unique constraints of table users (username, email): may `row` be
\* written, given the other rows
UniqueOk(row) ==
    \A u \in users : u.id # row.id => u.username # row.username /\ u.email # row.email

\* UserSerializer
Profile(u) == [id |-> u.id, username |-> u.username, email |-> u.email]

ServerError == Response(500, {}, NoData)
Accepted == Response(0, {}, NoData)

\* POST /api/users/register/, handled without interruption
register(p) ==
    /\ req' = Request("register", NoToken, 0, p)
    /\ IF RegistrationErrors(p) # {} THEN
            /\ resp' = Response(400, RegistrationErrors(p), NoData)
            /\ UNCHANGED <<users, nextUserId>>
       ELSE /\ nextUserId <= MaxUsers
            /\ IF UniqueOk(NewUser(p)) THEN
                    /\ users' = users \cup {NewUser(p)}
                    /\ nextUserId' = nextUserId + 1
                    /\ resp' = Response(201, {}, [username |-> p.username, email |-> NewUser(p).email])
               ELSE /\ resp' = ServerError
                    /\ UNCHANGED <<users, nextUserId>>
    /\ UNCHANGED <<budgets, blacklist, nextBudgetId, now, inflight, issued>>

\* register up to the end of serializer.is_valid()
register_validate(p) ==
    /\ req' = Request("register", NoToken, 0, p)
    /\ IF RegistrationErrors(p) # {} THEN
            /\ resp' = Response(400, RegistrationErrors(p), NoData)
            /\ UNCHANGED inflight
       ELSE /\ BagCardinality(inflight) < MaxInflight
            /\ inflight' = inflight (+) SetToBag({Request("register", NoToken, 0, p)})
            /\ resp' = Accepted
    /\ UNCHANGED <<users, budgets, blacklist, nextUserId, nextBudgetId, now, issued>>

\* register from serializer.save() on, for a request r that passed validation
register_save(r) ==
    /\ BagIn(r, inflight)
    /\ r.op = "register"
    /\ nextUserId <= MaxUsers
    /\ req' = Request("register_save", NoToken, 0, r.payload)
    /\ IF UniqueOk(NewUser(r.payload)) THEN
            /\ users' = users \cup {NewUser(r.payload)}
            /\ nextUserId' = nextUserId + 1
            /\ resp' = Response(201, {}, [username |-> r.payload.username, email |-> NewUser(r.payload).email])
       ELSE /\ resp' = ServerError
            /\ UNCHANGED <<users, nextUserId>>
    /\ inflight' = inflight (-) SetToBag({r})
    /\ UNCHANGED <<budgets, blacklist, nextBudgetId, now, issued>>

\* The unique validators of UserSerializer: another row holds the value
UserErrors(id, p) ==
    {f \in DOMAIN p : \E u \in users : u.id # id /\ u[f] = p[f]}

\* PATCH /api/users/{id}/ up to the end of serializer.is_valid()
user_update_validate(tok, id, p) ==
    /\ req' = Request("user_patch", tok, id, p)
    /\ IF Authenticate(tok) = 0 THEN
            /\ resp' = Unauthenticated
            /\ UNCHANGED inflight
       ELSE IF id \notin UserIds THEN
            /\ resp' = NotFound
            /\ UNCHANGED inflight
       ELSE IF UserErrors(id, p) # {} THEN
            /\ resp' = Response(400, UserErrors(id, p), NoData)
            /\ UNCHANGED inflight
       ELSE /\ BagCardinality(inflight) < MaxInflight
            /\ inflight' = inflight (+)
                    SetToBag({Request("user_patch", tok, id, p) @@ [instance |-> UserById(id)]})
            /\ resp' = Accepted
    /\ UNCHANGED <<users, budgets, blacklist, nextUserId, nextBudgetId, now, issued>>

\* PATCH /api/users/{id}/ from serializer.save() on: the instance fetched by
\* get_object is written back with the validated fields set, as an UPDATE
\* of the row with its id, or as an INSERT when that row is gone
user_update_save(r) ==
    /\ BagIn(r, inflight)
    /\ r.op = "user_patch"
    /\ LET row == Apply(r.instance, r.payload) IN
       /\ req' = Request("user_patch_save", r.tok, r.id, r.payload)
       /\ IF UniqueOk(row) THEN
               /\ users' = {u \in users : u.id # r.id} \cup {row}
               /\ resp' = Response(200, {}, Profile(row))
          ELSE /\ resp' = ServerError
               /\ UNCHANGED users
    /\ inflight' = inflight (-) SetToBag({r})
    /\ UNCHANGED <<budgets, blacklist, nextUserId, nextBudgetId, now, issued>>

\* A row created without set_password: no password matches it
NoPassword == <<>>

\* POST /api/users/ (UserViewSet.create with UserSerializer)
user_create(tok, p) ==
    /\ req' = Request("user_create", tok, 0, p)
    /\ LET errors == ({"username", "email"} \ DOMAIN p) \cup UserErrors(0, p) IN
       IF Authenticate(tok) = 0 THEN
            /\ resp' = Unauthenticated
            /\ UNCHANGED <<users, nextUserId>>
       ELSE IF errors # {} THEN
            /\ resp' = Response(400, errors, NoData)
            /\ UNCHANGED <<users, nextUserId>>
       ELSE /\ nextUserId <= MaxUsers
            /\ LET row == [id |-> nextUserId, username |-> p.username,
                           email |-> p.email, password |-> NoPassword]
               IN  /\ users' = users \cup {row}
                   /\ resp' = Response(201, {}, Profile(row))
            /\ nextUserId' = nextUserId + 1
    /\ UNCHANGED <<budgets, blacklist, nextBudgetId, now, inflight, issued>>

\* DELETE /api/users/{id}/ (UserViewSet.destroy); the budgets of the user go
\* with the row (on_delete=CASCADE)
user_destroy(tok, id) ==
    /\ req' = Request("user_delete", tok, id, Empty)
    /\ IF Authenticate(tok) = 0 THEN
            /\ resp' = Unauthenticated
            /\ UNCHANGED <<users, budgets>>
       ELSE IF id \notin UserIds THEN
            /\ resp' = NotFound
            /\ UNCHANGED <<users, budgets>>
       ELSE /\ users' = users \ {UserById(id)}
            /\ budgets' = {b \in budgets : b.user # id}
            /\ resp' = Response(204, {}, NoData)
    /\ UNCHANGED <<blacklist, nextUserId, nextBudgetId, now, inflight, issued>>

\* GET /api/users/me/
me(tok) ==
    /\ req' = Request("me", tok, 0, Empty)
    /\ resp' = IF Authenticate(tok) = 0 THEN Unauthenticated
               ELSE Response(200, {}, Profile(UserById(Authenticate(tok))))
    /\ UNCHANGED <<users, budgets, blacklist, nextUserId, nextBudgetId, now, inflight, issued>>

Unexpired(row) == row.token.exp > now

\* Mutant: a successful logout also prunes the rows of expired tokens
logout_prune(tok, p) ==
    /\ req' = Request("logout", tok, 0, p)
    /\ IF Authenticate(tok) = 0 THEN
            /\ resp' = Unauthenticated
            /\ UNCHANGED blacklist
       ELSE IF "refresh_token" \notin DOMAIN p \/ p["refresh_token"] = Blank THEN
            /\ resp' = Response(400, {"detail"}, NoData)
            /\ UNCHANGED blacklist
       ELSE IF ~RefreshTokenOk(p["refresh_token"]) THEN
            /\ resp' = Response(400, {"detail"}, NoData)
            /\ UNCHANGED blacklist
       ELSE /\ Len(blacklist) < MaxBlacklist
            /\ blacklist' = Append(SelectSeq(blacklist, Unexpired),
                                   [token |-> p["refresh_token"], blacklisted_at |-> now])
            /\ resp' = Response(200, {"detail"}, NoData)
    /\ UNCHANGED <<users, budgets, nextUserId, nextBudgetId, now, inflight, issued>>

\* Mutant: a token that is in the blacklist already is not inserted again
logout_once(tok, p) ==
    /\ req' = Request("logout", tok, 0, p)
    /\ IF Authenticate(tok) = 0 THEN
            /\ resp' = Unauthenticated
            /\ UNCHANGED blacklist
       ELSE IF "refresh_token" \notin DOMAIN p \/ p["refresh_token"] = Blank THEN
            /\ resp' = Response(400, {"detail"}, NoData)
            /\ UNCHANGED blacklist
       ELSE IF ~RefreshTokenOk(p["refresh_token"]) THEN
            /\ resp' = Response(400, {"detail"}, NoData)
            /\ UNCHANGED blacklist
       ELSE /\ Len(blacklist) < MaxBlacklist
            /\ blacklist' =
                    IF \E i \in 1..Len(blacklist) : blacklist[i].token = p["refresh_token"]
                    THEN blacklist
                    ELSE Append(blacklist, [token |-> p["refresh_token"], blacklisted_at |-> now])
            /\ resp' = Response(200, {"detail"}, NoData)
    /\ UNCHANGED <<users, budgets, nextUserId, nextBudgetId, now, inflight, issued>>

\* POST /api/users/logout/
logout(tok, p) ==
    /\ req' = Request("logout", tok, 0, p)
    /\ IF Authenticate(tok) = 0 THEN
            /\ resp' = Unauthenticated
            /\ UNCHANGED blacklist
       ELSE IF "refresh_token" \notin DOMAIN p \/ p["refresh_token"] = Blank THEN
            /\ resp' = Response(400, {"detail"}, NoData)
            /\ UNCHANGED blacklist
       ELSE IF ~RefreshTokenOk(p["refresh_token"]) THEN
            /\ resp' = Response(400, {"detail"}, NoData)
            /\ UNCHANGED blacklist
       ELSE /\ Len(blacklist) < MaxBlacklist
            /\ blacklist' = Append(blacklist, [token |-> p["refresh_token"], blacklisted_at |-> now])
            /\ resp' = Response(200, {"detail"}, NoData)
    /\ UNCHANGED <<users, budgets, nextUserId, nextBudgetId, now, inflight, issued>>

\* SIMPLE_JWT lifetimes: the access token is short-lived, the refresh token
\* longer-lived
AccessLifetime == 1
RefreshLifetime == 2

\* A token the server signs now: its claims are the type, the user, the
\* expiry and a token id (jti) that no other token has
Sign(typ, uid, lifetime, jti) ==
    [typ |-> typ, uid |-> uid, exp |-> now + lifetime, jti |-> jti]

\* Mutant: the password is not compared
CredentialsAnyPassword(p) ==
    {u \in users : u.username = p.username}

\* Mutant: a user with a refresh token in the blacklist cannot log in
CredentialsNotLoggedOut(p) ==
    {u \in users : /\ u.username = p.username
                   /\ u.password = Hash(p.password)
                   /\ \A i \in 1..Len(blacklist) : blacklist[i].token.uid # u.id}

\* authenticate(username, password): the users these credentials belong to
Credentials(p) ==
    {u \in users : u.username = p.username /\ u.password = Hash(p.password)}

\* POST /api/token/ (TokenObtainPairView)
login(p) ==
    /\ req' = Request("login", NoToken, 0, p)
    /\ IF {"username", "password"} \ DOMAIN p # {} THEN
            /\ resp' = Response(400, {"username", "password"} \ DOMAIN p, NoData)
            /\ UNCHANGED issued
       ELSE IF Credentials(p) = {} THEN
            /\ resp' = Unauthenticated
            /\ UNCHANGED issued
       ELSE /\ Cardinality(issued) + 2 <= MaxIssued
            /\ LET u == CHOOSE u \in Credentials(p) : TRUE
                   refresh == Sign("refresh", u.id, RefreshLifetime, Cardinality(issued) + 1)
                   access == Sign("access", u.id, AccessLifetime, Cardinality(issued) + 2)
               IN  /\ issued' = issued \cup {refresh, access}
                   /\ resp' = Response(200, {}, [refresh |-> refresh, access |-> access])
    /\ UNCHANGED <<users, budgets, blacklist, nextUserId, nextBudgetId, now, inflight>>

\* POST /api/token/refresh/ (TokenRefreshView); whether the token of a user
\* who no longer exists is honoured depends on the library version
token_refresh(p) ==
    /\ req' = Request("refresh", NoToken, 0, p)
    /\ IF "refresh" \notin DOMAIN p \/ p["refresh"] = Blank THEN
            /\ resp' = Response(400, {"refresh"}, NoData)
            /\ UNCHANGED issued
       ELSE IF ~RefreshTokenOk(p["refresh"]) THEN
            /\ resp' = Unauthenticated
            /\ UNCHANGED issued
       ELSE \E honoured \in {TRUE} \cup {p["refresh"].uid \in UserIds} :
            IF ~honoured THEN
                /\ resp' = Unauthenticated
                /\ UNCHANGED issued
            ELSE
                /\ Cardinality(issued) + 1 <= MaxIssued
                /\ LET access == Sign("access", p["refresh"].uid, AccessLifetime, Cardinality(issued) + 1)
                   IN  /\ issued' = issued \cup {access}
                       /\ resp' = Response(200, {}, [access |-> access])
    /\ UNCHANGED <<users, budgets, blacklist, nextUserId, nextBudgetId, now, inflight>>

Idle == Request("none", NoToken, 0, Empty)

\* Time passes between two requests
Tick ==
    /\ now < MaxTime
    /\ now' = now + 1
    /\ req' = Idle
    /\ resp' = Accepted
    /\ UNCHANGED <<users, budgets, blacklist, nextUserId, nextBudgetId, inflight, issued>>

Init ==
    /\ users = {}
    /\ budgets = {}
    /\ blacklist = <<>>
    /\ nextUserId = 1
    /\ nextBudgetId = 1
    /\ now = 0
    /\ inflight = EmptyBag
    /\ issued = {}
    /\ req = Idle
    /\ resp = Accepted

----------------------------------------------------------------------------
(* The requests the clients send *)

Names == <<"alice", "bob", "carol", "dave">>
StrongPassword == "SecurePass123!"
OtherPassword == "DifferentPass456!"
ShortPassword == "Short1!"

Registration(i, domain, password, confirm) ==
    [username |-> Names[i], email |-> Email(Names[i], domain),
     password |-> password, password_confirm |-> confirm]

\* The first client registers: a valid form
RegisterOne ==
    /\ nextUserId = 1
    /\ register(Registration(1, "x.com", StrongPassword, StrongPassword))

\* The next client to register: a new name, a valid form
RegisterNext ==
    /\ nextUserId <= MaxUsers
    /\ register(Registration(nextUserId, "x.com", StrongPassword, StrongPassword))

\* Tokens that are good at the present time
Access(uid) == Token("access", uid, now + 1)
Refresh(uid) == Token("refresh", uid, now + 1)

\* An access token that has expired
Expired(uid) == Token("access", uid, now)

Amount5000 == Dec(FALSE, 5000, 0)

BudgetData(title) ==
    [title |-> title, date |-> "2026-02-15", initial_amount |-> Amount5000]

\* The same payload with a field added or replaced
With(p, f, v) == [g \in DOMAIN p \cup {f} |-> IF g = f THEN v ELSE p[g]]

BudgetIds == 1..MaxBudgets

----------------------------------------------------------------------------
(* Owner isolation: every user sends budget requests with a good token;   *)
(* payloads may name user 2 as the owner                                  *)

OwnerTokens == {Access(u) : u \in 1..MaxUsers}

CreatePayloads ==
    {BudgetData(<<"a">>), With(BudgetData(<<"a">>), "user", 2), BudgetData(<<>>)}

PutPayloads ==
    {With(BudgetData(<<"b">>), "user", 2), BudgetData(<<>>)}

PatchPayloads ==
    {[title |-> <<"b">>, user |-> 1], [title |-> <<>>]}

NextBudgets ==
    \/ RegisterNext
    \/ \E tok \in OwnerTokens : list(tok)
    \/ \E tok \in OwnerTokens, p \in CreatePayloads : create(tok, p)
    \/ \E tok \in OwnerTokens, id \in BudgetIds : retrieve(tok, id)
    \/ \E tok \in OwnerTokens, id \in BudgetIds, p \in PutPayloads : update(tok, id, p, FALSE)
    \/ \E tok \in OwnerTokens, id \in BudgetIds, p \in PatchPayloads : update(tok, id, p, TRUE)
    \/ \E tok \in OwnerTokens, id \in BudgetIds : destroy(tok, id)

SpecBudgets == Init /\ [][NextBudgets]_vars

\* The client of request r holds a good access token and is user u
By(r, u) == Authenticate(r.tok) = u /\ u # 0

\* C1: a retrieve, update (PUT/PATCH) or delete of a budget by an
\* authenticated user who is not its owner is answered 404 and leaves the
\* budget as it was.
CrossUserNotFound ==
    [][\A b \in budgets :
          (/\ req'.op \in {"retrieve", "put", "patch", "delete"}
           /\ req'.id = b.id
           /\ Authenticate(req'.tok) # 0
           /\ Authenticate(req'.tok) # b.user)
          => (resp'.status = 404 /\ b \in budgets')]_vars

\* C1 witness: user A's valid PATCH of a budget that user B owns was answered
CrossUserPatchAnswered ==
    /\ req.op = "patch"
    /\ Errors(req.payload, TRUE) = {}
    /\ Authenticate(req.tok) # 0
    /\ \E b \in budgets : b.id = req.id /\ b.user # Authenticate(req.tok)

\* C2: list(U) returns exactly the budgets owned by U, each once, and counts
\* them.
ListIsOwnBudgets ==
    (req.op = "list" /\ resp.status = 200) =>
        LET own == {b \in budgets : b.user = Authenticate(req.tok)}
            results == resp.data.results
        IN  /\ {results[i] : i \in 1..Len(results)} = own
            /\ Len(results) = Cardinality(own)
            /\ resp.data.count = Cardinality(own)

\* C2 witness: a user who owns a budget listed while another user owns one too
ListedAmongOthers ==
    /\ req.op = "list"
    /\ resp.status = 200
    /\ resp.data.count > 0
    /\ \E b \in budgets : b.user # Authenticate(req.tok)

\* C3: a successful create stores a budget owned by the authenticated user
\* and returns it (201, user = that user), whatever `user` the payload names.
CreateOwnedByRequester ==
    (req.op = "create" /\ Authenticate(req.tok) # 0 /\ Errors(req.payload, FALSE) = {}) =>
        /\ resp.status = 201
        /\ resp.data.user = Authenticate(req.tok)
        /\ resp.data \in budgets
        /\ \A b \in budgets : b.id = resp.data.id => b = resp.data

\* C3 witness: a create whose payload named another existing user succeeded
CreatedNamingOtherUser ==
    /\ req.op = "create"
    /\ resp.status = 201
    /\ "user" \in DOMAIN req.payload
    /\ req.payload["user"] \in UserIds
    /\ req.payload["user"] # Authenticate(req.tok)

\* C4: a valid update by the owner whose payload names another user is
\* answered 200, and no step changes the owner of a budget.
OwnerNeverChanges ==
    [][/\ \A b \in budgets, c \in budgets' : b.id = c.id => b.user = c.user
       /\ (/\ req'.op \in {"put", "patch"}
           /\ "user" \in DOMAIN req'.payload
           /\ Errors(req'.payload, req'.op = "patch") = {}
           /\ \E b \in budgets : b.id = req'.id /\ By(req', b.user))
          => resp'.status = 200]_vars

\* C4 witness: the owner's update naming another existing user succeeded
UpdatedNamingOtherUser ==
    /\ req.op \in {"put", "patch"}
    /\ resp.status = 200
    /\ "user" \in DOMAIN req.payload
    /\ req.payload["user"] \in UserIds
    /\ req.payload["user"] # Authenticate(req.tok)

----------------------------------------------------------------------------
(* Authentication: user 1 holds a good access token; requests also come   *)
(* with no token, with a malformed token, with a refresh token as bearer  *)
(* and with an expired token                                              *)

Tokens == {NoToken, Garbage, Refresh(1), Expired(1), Access(1)}

AuthCreatePayloads == {BudgetData(<<"a">>), BudgetData(<<>>)}
AuthUpdatePayloads == {[title |-> <<"b">>], [title |-> <<>>]}
LogoutPayloads == {Empty, [refresh_token |-> Refresh(1)], [refresh_token |-> Access(1)]}

Next ==
    \/ RegisterOne
    \/ \E tok \in Tokens : list(tok)
    \/ \E tok \in Tokens, p \in AuthCreatePayloads : create(tok, p)
    \/ \E tok \in Tokens, id \in BudgetIds : retrieve(tok, id)
    \/ \E tok \in Tokens, id \in BudgetIds, p \in AuthCreatePayloads : update(tok, id, p, FALSE)
    \/ \E tok \in Tokens, id \in BudgetIds, p \in AuthUpdatePayloads : update(tok, id, p, TRUE)
    \/ \E tok \in Tokens, id \in BudgetIds : destroy(tok, id)
    \/ \E tok \in Tokens : me(tok)
    \/ \E tok \in Tokens, p \in LogoutPayloads : logout(tok, p)

Spec == Init /\ [][Next]_vars

ProtectedOps == {"list", "create", "retrieve", "put", "patch", "delete", "me", "logout"}

\* An unexpired access token of an existing user
ValidAccessToken(tok) ==
    tok.typ = "access" /\ tok.exp > now /\ \E u \in users : u.id = tok.uid

\* C8: a protected operation requested without a valid access token is
\* answered 401 and changes neither users, budgets nor the blacklist,
\* whatever budget it names and whatever payload it carries.
UnauthenticatedRejected ==
    [][(req'.op \in ProtectedOps /\ ~ValidAccessToken(req'.tok))
          => /\ resp'.status = 401
             /\ users' = users
             /\ budgets' = budgets
             /\ blacklist' = blacklist]_vars

\* C8 witness: an invalid payload for a budget that does not exist, sent with
\* a token that is not a valid access token, while budgets exist
UnauthenticatedBeforeValidation ==
    /\ req.op \in {"put", "patch"}
    /\ ~ValidAccessToken(req.tok)
    /\ req.tok # NoToken
    /\ Errors(req.payload, req.op = "patch") # {}
    /\ budgets # {}
    /\ \A b \in budgets : b.id # req.id

----------------------------------------------------------------------------
(* Amounts: user 1 creates and updates budgets with amounts on both sides *)
(* of every limit                                                         *)

\* -0.01, 0.00, 0.01, 0.02, 99999999.99, 100000000.00, 999999999.99,
\* 1000000000.00
Amounts ==
    {Dec(TRUE, 0, 1), Dec(FALSE, 0, 0), Dec(FALSE, 0, 1), Dec(FALSE, 0, 2),
     Dec(FALSE, 99999999, 99), Dec(FALSE, 100000000, 0),
     Dec(FALSE, CapWhole, CapFrac), Dec(FALSE, CapWhole + 1, 0)}

AmountPayloads(title) ==
    {With(BudgetData(title), "initial_amount", a) : a \in Amounts \cup {NotANumber}}

AmountPatches == {[initial_amount |-> a] : a \in Amounts}

NextAmounts ==
    \/ RegisterOne
    \/ \E tok \in {NoToken, Access(1)}, p \in AmountPayloads(<<"a">>) : create(tok, p)
    \/ \E id \in BudgetIds, p \in AmountPayloads(<<"b">>) : update(Access(1), id, p, FALSE)
    \/ \E id \in BudgetIds, p \in AmountPatches : update(Access(1), id, p, TRUE)
    \/ \E id \in BudgetIds : destroy(Access(1), id)

SpecAmounts == Init /\ [][NextAmounts]_vars

\* Request r is a create or an update that gets as far as validating its
\* payload: the client is authenticated and, for an update, owns the budget
Validated(r) ==
    /\ r.op \in {"create", "put", "patch"}
    /\ Authenticate(r.tok) # 0
    /\ r.op = "create" \/ \E b \in budgets : b.id = r.id /\ b.user = Authenticate(r.tok)

SendsAmount(r) ==
    /\ "initial_amount" \in DOMAIN r.payload
    /\ r.payload["initial_amount"] # NotANumber

\* C5: a create or update whose initial_amount is <= 0 or > 999999999.99 is
\* answered 400 with an error under initial_amount, and no budget is created
\* or modified.
AmountOutOfRangeRejected ==
    [][(/\ Validated(req')
        /\ SendsAmount(req')
        /\ \/ Cmp(req'.payload["initial_amount"], 0, 0) <= 0
           \/ Cmp(req'.payload["initial_amount"], CapWhole, CapFrac) > 0)
          => /\ resp'.status = 400
             /\ "initial_amount" \in resp'.keys
             /\ budgets' = budgets]_vars

\* C5 witness: the owner's PATCH with an amount above 999999999.99 was
\* answered
AmountTooLargeAnswered ==
    /\ req.op = "patch"
    /\ Validated(req)
    /\ SendsAmount(req)
    /\ Cmp(req.payload["initial_amount"], CapWhole, CapFrac) > 0

\* C6: every amount of whole hundredths with 0 < amount <= 999999999.99 is
\* accepted by create and update when the other fields are valid, and is
\* stored as submitted.
AmountInRangeAccepted ==
    (/\ Validated(req)
     /\ SendsAmount(req)
     /\ Cmp(req.payload["initial_amount"], 0, 0) > 0
     /\ Cmp(req.payload["initial_amount"], CapWhole, CapFrac) <= 0
     /\ Errors(req.payload, req.op = "patch") \ {"initial_amount"} = {})
    => /\ resp.status \in {200, 201}
       /\ resp.data.initial_amount = req.payload["initial_amount"]
       /\ resp.data \in budgets

----------------------------------------------------------------------------
(* Titles: user 1 creates and updates budgets with titles of up to MaxPad *)
(* blanks on either side of 0, 1, 255 or 256 letters, or with a blank     *)
(* inside                                                                 *)

Titles ==
    {Padded(l, n, r) : l \in 0..MaxPad, r \in 0..MaxPad, n \in {0, 1, MaxTitleLen, MaxTitleLen + 1}}
    \cup {<<"a", " ", "a">>}

NextTitles ==
    \/ RegisterOne
    \/ \E t \in Titles : create(Access(1), BudgetData(t))
    \/ \E id \in BudgetIds, t \in Titles : update(Access(1), id, BudgetData(t), FALSE)
    \/ \E id \in BudgetIds, t \in Titles : update(Access(1), id, [title |-> t], TRUE)

SpecTitles == Init /\ [][NextTitles]_vars

SendsTitle(r) == "title" \in DOMAIN r.payload

StoredTitlesClean(rows) ==
    \A b \in rows : b.title # <<>> /\ Strip(b.title) = b.title /\ Len(b.title) <= MaxTitleLen

\* C7 as claimed: a title that is empty, blank or longer than 255 characters
\* is answered 400 with an error under title and nothing changes; an accepted
\* title is stored trimmed, so stored titles are non-empty, trimmed and at
\* most 255 long.
TitleRejectedByLength ==
    [][/\ (Validated(req') /\ SendsTitle(req')) =>
            IF \/ Strip(req'.payload["title"]) = <<>>
               \/ Len(req'.payload["title"]) > MaxTitleLen
            THEN resp'.status = 400 /\ "title" \in resp'.keys /\ budgets' = budgets
            ELSE resp'.status \in {200, 201} =>
                    /\ resp'.data.title = Strip(req'.payload["title"])
                    /\ resp'.data \in budgets'
       /\ StoredTitlesClean(budgets')]_vars

\* C7 as amended: the length limit applies to the title with its leading and
\* trailing whitespace removed; a title that is empty, blank or, once
\* trimmed, longer than 255 characters is answered 400 with an error under
\* title and nothing changes; an accepted title is stored trimmed, so stored
\* titles are non-empty, trimmed and at most 255 long.
TitleRejectedByTrimmedLength ==
    [][/\ (Validated(req') /\ SendsTitle(req')) =>
            IF \/ Strip(req'.payload["title"]) = <<>>
               \/ Len(Strip(req'.payload["title"])) > MaxTitleLen
            THEN resp'.status = 400 /\ "title" \in resp'.keys /\ budgets' = budgets
            ELSE resp'.status \in {200, 201} =>
                    /\ resp'.data.title = Strip(req'.payload["title"])
                    /\ resp'.data \in budgets'
       /\ StoredTitlesClean(budgets')]_vars

\* C7 witness: a title of 256 characters that is 255 long once trimmed was
\* stored
PaddedLongTitleStored ==
    /\ Validated(req)
    /\ SendsTitle(req)
    /\ Len(req.payload["title"]) > MaxTitleLen
    /\ resp.status \in {200, 201}
    /\ Len(resp.data.title) = MaxTitleLen
    /\ resp.data \in budgets

----------------------------------------------------------------------------
(* Users: registrations and profile updates whose validation and write   *)
(* interleave with those of other requests                                *)

\* alice@x.com, alice@X.com, bob@x.com
Emails == {Email(Names[1], "x.com"), Email(Names[1], "X.com"), Email(Names[2], "x.com")}

Registrations ==
    {[username |-> Names[i], email |-> e, password |-> StrongPassword,
      password_confirm |-> StrongPassword] : i \in 1..2, e \in Emails}
    \cup {Registration(2, "x.com", StrongPassword, OtherPassword),
          Registration(2, "x.com", ShortPassword, ShortPassword),
          Registration(2, "x.com", ShortPassword, StrongPassword)}

UserPatches == {[username |-> Names[2]], [email |-> Email(Names[2], "x.com")]}

NextUsers ==
    \/ \E p \in Registrations : register(p)
    \/ \E p \in Registrations : register_validate(p)
    \/ \E r \in BagToSet(inflight) : register_save(r)
    \/ \E tok \in {NoToken, Access(1)}, p \in UserPatches : user_update_validate(tok, 1, p)
    \/ \E r \in BagToSet(inflight) : user_update_save(r)

SpecUsers == Init /\ [][NextUsers]_vars

UsersUnique ==
    \A u, v \in users :
        u # v => u.username # v.username /\ u.email # v.email /\ u.id # v.id

\* C10 witness: two users exist and the store has refused a write that
\* passed validation
ConflictingWriteRefused ==
    /\ Cardinality(users) = 2
    /\ req.op \in {"register_save", "user_patch_save"}
    /\ resp = ServerError

----------------------------------------------------------------------------
(* Sessions: one user registers, logs in, refreshes, asks for the profile  *)
(* and logs out while time passes; the clients send the tokens the server  *)
(* has issued, a string that is no token, an empty string, or nothing      *)

LoginPayloads ==
    {[username |-> Names[1], password |-> StrongPassword],
     [username |-> Names[1], password |-> OtherPassword],
     [username |-> Names[2], password |-> StrongPassword],
     [username |-> Names[1]]}

SentTokens == issued \cup {Garbage, Blank}

NextAuth ==
    \/ RegisterOne
    \/ \E p \in LoginPayloads : login(p)
    \/ \E p \in {Empty} \cup {[refresh |-> t] : t \in SentTokens} : token_refresh(p)
    \/ \E tok \in issued \cup {NoToken} : me(tok)
    \/ \E tok \in issued \cup {NoToken},
          p \in {Empty} \cup {[refresh_token |-> t] : t \in SentTokens} : logout(tok, p)
    \/ Tick

SpecAuth == Init /\ [][NextAuth]_vars

\* The users whose username and registered password are the ones of form p
Holders(p) ==
    {u \in users : u.username = p.username /\ u.password = Hash(p.password)}

\* C11: a login that sends a username and a password is answered 200 with an
\* access and a refresh token of the user, both newly issued, exactly when a
\* user with this username registered this password, and is otherwise
\* answered 401 with no token issued; the login that follows a successful
\* register with the same credentials succeeds
LoginIffCredentials ==
    [][req'.op = "login" /\ DOMAIN req'.payload = {"username", "password"} =>
        /\ IF Holders(req'.payload) # {} THEN
                /\ resp'.status = 200
                /\ resp'.data.access.typ = "access"
                /\ resp'.data.refresh.typ = "refresh"
                /\ \A u \in Holders(req'.payload) :
                        resp'.data.access.uid = u.id /\ resp'.data.refresh.uid = u.id
                /\ issued' = issued \cup {resp'.data.access, resp'.data.refresh}
                /\ Cardinality(issued') = Cardinality(issued) + 2
           ELSE /\ resp' = Unauthenticated
                /\ issued' = issued
        /\ (/\ req.op = "register" /\ resp.status = 201
            /\ req'.payload.username = req.payload.username
            /\ req'.payload.password = req.payload.password) => resp'.status = 200
    ]_vars

\* C11 witness: the first login after the registration was answered with the
\* first two tokens
LoginAnswered ==
    /\ req.op = "login"
    /\ resp.status = 200
    /\ {resp.data.access, resp.data.refresh} \subseteq issued
    /\ Cardinality(issued) = 2
    /\ now = 0

\* The request carries a token string in field f
Carries(r, f) == f \in DOMAIN r.payload /\ r.payload[f] # Blank

\* C12: a refresh request that carries a token is answered 401, with nothing
\* issued, unless the token is an unexpired refresh token the server issued,
\* and then it is answered 200 with a newly issued access token of the same
\* user; an unexpired access token the server issued, as the one obtained
\* from refresh, makes me answer with the profile of that user
RefreshIssuesAccess ==
    [][/\ (req'.op = "refresh" /\ Carries(req', "refresh")) =>
            LET r == req'.payload["refresh"] IN
            IF r \in issued /\ r.typ = "refresh" /\ r.exp > now THEN
                /\ resp'.status = 200
                /\ resp'.data.access \notin issued
                /\ resp'.data.access.typ = "access"
                /\ resp'.data.access.uid = r.uid
                /\ resp'.data.access.exp > now
                /\ issued' = issued \cup {resp'.data.access}
            ELSE /\ resp' = Unauthenticated
                 /\ issued' = issued
       /\ (/\ req'.op = "me"
           /\ req'.tok \in issued /\ req'.tok.typ = "access" /\ req'.tok.exp > now) =>
            /\ resp'.status = 200
            /\ resp'.data.id = req'.tok.uid
            /\ \E u \in users : u.id = req'.tok.uid /\ resp'.data.username = u.username
    ]_vars

\* C12 witness: me was answered with the profile for the third token issued,
\* the access token of a refresh that followed the login after its own
\* access token had expired
RefreshedTokenAuthenticated ==
    /\ req.op = "me"
    /\ resp.status = 200
    /\ req.tok.jti = 3
    /\ Cardinality(issued) = 3
    /\ \E t \in issued : t.typ = "access" /\ t.jti < 3 /\ t.exp <= now

\* The token is an unexpired refresh token that the server issued
GoodRefreshToken(t) == t \in issued /\ t.typ = "refresh" /\ t.exp > now

\* C13: a logout with a valid access token that carries an unexpired refresh
\* token is answered 200 and appends one row holding that token to the
\* blacklist, whose other rows stay as they are, also when the token is in
\* the blacklist already
LogoutRecordsToken ==
    [][(/\ req'.op = "logout"
        /\ ValidAccessToken(req'.tok)
        /\ Carries(req', "refresh_token")
        /\ GoodRefreshToken(req'.payload["refresh_token"])) =>
            /\ resp'.status = 200
            /\ Len(blacklist') = Len(blacklist) + 1
            /\ SubSeq(blacklist', 1, Len(blacklist)) = blacklist
            /\ blacklist'[Len(blacklist')].token = req'.payload["refresh_token"]
    ]_vars

\* C13 witness: the same refresh token was recorded by two logouts
LoggedOutTwice ==
    /\ req.op = "logout"
    /\ resp.status = 200
    /\ Len(blacklist) = 2
    /\ blacklist[1].token = blacklist[2].token
    /\ blacklist[2].token = req.payload["refresh_token"]

\* C14: a logout with a valid access token is answered 200 or 400, and when
\* its refresh_token is missing, empty, no token, expired or not of the
\* refresh type it is answered 400 and the blacklist stays as it is
LogoutBadTokenRejected ==
    [][(req'.op = "logout" /\ ValidAccessToken(req'.tok)) =>
            /\ resp'.status \in {200, 400}
            /\ (\/ ~Carries(req', "refresh_token")
                \/ ~GoodRefreshToken(req'.payload["refresh_token"])) =>
                    /\ resp'.status = 400
                    /\ blacklist' = blacklist
    ]_vars

\* C14 witness: an authenticated logout that sent an expired refresh token
\* was answered 400
ExpiredRefreshTokenRefused ==
    /\ req.op = "logout"
    /\ ValidAccessToken(req.tok)
    /\ resp.status = 400
    /\ Carries(req, "refresh_token")
    /\ req.payload["refresh_token"] \in issued
    /\ req.payload["refresh_token"].typ = "refresh"
    /\ req.payload["refresh_token"].exp <= now

\* The users who have a refresh token in the blacklist
LoggedOut == {blacklist[i].token.uid : i \in 1..Len(blacklist)}

\* C15: logout leaves the users as they are, and a login with the username
\* and password of a user who has logged out is answered 200 with an access
\* and a refresh token that were not issued before
LoginAfterLogout ==
    [][/\ req'.op = "logout" => users' = users
       /\ (/\ req'.op = "login"
           /\ DOMAIN req'.payload = {"username", "password"}
           /\ \E u \in Holders(req'.payload) : u.id \in LoggedOut) =>
                /\ resp'.status = 200
                /\ {resp'.data.access, resp'.data.refresh} \cap issued = {}
                /\ {resp'.data.access, resp'.data.refresh} \subseteq issued'
                /\ resp'.data.access # resp'.data.refresh
                /\ resp'.data.access.exp > now /\ resp'.data.refresh.exp > now
    ]_vars

\* C15 witness: the user logged in, logged out with the refresh token of that
\* login, and a second login was answered with the third and fourth token
LoggedInAgain ==
    /\ req.op = "login"
    /\ resp.status = 200
    /\ Len(blacklist) > 0
    /\ blacklist[1].token \in issued
    /\ blacklist[1].token.uid = resp.data.access.uid
    /\ blacklist[1].token.jti < resp.data.refresh.jti
    /\ Cardinality(issued) = 4

\* The tokens the blacklist holds
Revoked == {blacklist[i].token : i \in 1..Len(blacklist)}

\* C16: a refresh request that carries a refresh token recorded in the
\* blacklist is answered 200 with a newly issued access token of the token's
\* user as long as the token has not expired
RevokedRefreshHonoured ==
    [][(/\ req'.op = "refresh"
        /\ Carries(req', "refresh")
        /\ req'.payload["refresh"] \in Revoked
        /\ req'.payload["refresh"].exp > now) =>
            /\ resp'.status = 200
            /\ resp'.data.access.typ = "access"
            /\ resp'.data.access.uid = req'.payload["refresh"].uid
            /\ resp'.data.access \notin issued
            /\ resp'.data.access \in issued'
    ]_vars

\* C16 witness: a refresh with the token that a logout had recorded was
\* answered with an access token
RefreshedAfterLogout ==
    /\ req.op = "refresh"
    /\ resp.status = 200
    /\ req.payload["refresh"] \in Revoked
    /\ resp.data.access \in issued

----------------------------------------------------------------------------
(* Sessions with a budget: the user of the sessions also creates, lists,   *)
(* updates and deletes a first budget with the access tokens issued        *)

AccessTokens == {t \in issued : t.typ = "access"}
RefreshTokens == {t \in issued : t.typ = "refresh"}

NextSession ==
    \/ RegisterOne
    \/ login([username |-> Names[1], password |-> StrongPassword])
    \/ \E t \in RefreshTokens : token_refresh([refresh |-> t])
    \/ \E tok \in AccessTokens : me(tok)
    \/ \E tok \in AccessTokens, t \in RefreshTokens : logout(tok, [refresh_token |-> t])
    \/ Tick
    \/ \E tok \in AccessTokens : list(tok)
    \/ nextBudgetId = 1 /\ \E tok \in AccessTokens : create(tok, BudgetData(<<"a">>))
    \/ \E tok \in AccessTokens : update(tok, 1, [title |-> <<"b">>], TRUE)
    \/ \E tok \in AccessTokens : destroy(tok, 1)

SpecSession == Init /\ [][NextSession]_vars

\* C17: every step keeps the rows of the blacklist as they are, in their
\* places, and only a logout answered 200 adds a row, a single one
BlacklistAppendOnly ==
    [][/\ Len(blacklist') >= Len(blacklist)
       /\ SubSeq(blacklist', 1, Len(blacklist)) = blacklist
       /\ blacklist' # blacklist =>
            /\ req'.op = "logout"
            /\ resp'.status = 200
            /\ Len(blacklist') = Len(blacklist) + 1
    ]_vars

\* C17 witness: with a row in the blacklist whose token has expired, and a
\* budget in the store, a later logout added a second row
SecondRowAppended ==
    /\ req.op = "logout"
    /\ resp.status = 200
    /\ Len(blacklist) = 2
    /\ blacklist[1].token.exp <= now
    /\ budgets # {}

----------------------------------------------------------------------------
(* The user resource: registered users send the standard create, update    *)
(* and delete requests of the user view set, for their own row and for     *)
(* the rows of others                                                      *)

UserCreatePayloads ==
    {[username |-> Names[4], email |-> Email(Names[4], "x.com")],
     [username |-> Names[1], email |-> Email(Names[4], "x.com")]}

UserRenames == {[username |-> Names[3]], [email |-> Email(Names[3], "x.com")]}

NextUserResource ==
    \/ RegisterNext
    \/ \E tok \in OwnerTokens, p \in UserCreatePayloads : user_create(tok, p)
    \/ \E tok \in OwnerTokens, id \in 1..MaxUsers, p \in UserRenames :
            user_update_validate(tok, id, p)
    \/ \E r \in BagToSet(inflight) : user_update_save(r)
    \/ \E tok \in OwnerTokens, id \in 1..MaxUsers : user_destroy(tok, id)

SpecUserResource == Init /\ [][NextUserResource]_vars

\* C18: a step changes the set of users only by adding the row of a register
\* answered 201, and the id, username and email of every user stay as they
\* are
UserIdentityFixed ==
    [][/\ \A u \in users : \E v \in users' :
            v.id = u.id /\ v.username = u.username /\ v.email = u.email
       /\ users' # users => req'.op \in {"register", "register_save"} /\ resp'.status = 201
    ]_vars

----------------------------------------------------------------------------
(* Ordering: one user creates budgets dated 2026-01-01 at different times, *)
(* moves them to another date and back, deletes them and lists them        *)

EarlyBudget == With(BudgetData(<<"a">>), "date", "2026-01-01")

NextOrder ==
    \/ RegisterOne
    \/ Tick
    \/ create(Access(1), EarlyBudget)
    \/ \E id \in BudgetIds, d \in DOMAIN DateOrd : update(Access(1), id, [date |-> d], TRUE)
    \/ \E id \in BudgetIds : destroy(Access(1), id)
    \/ list(Access(1))

SpecOrder == Init /\ [][NextOrder]_vars

\* C19: in a list answered 200 a budget comes before another only if its
\* date is later, or the dates are equal and it was not created earlier
ListOrdered ==
    (req.op = "list" /\ resp.status = 200) =>
        \A i, j \in 1..Len(resp.data.results) :
            i < j =>
                LET a == resp.data.results[i]
                    b == resp.data.results[j]
                IN  /\ DateOrd[a.date] >= DateOrd[b.date]
                    /\ a.date = b.date => a.created_at >= b.created_at

\* C19 witness: a list of two budgets after an update of a date: the budget
\* moved to the later date comes first although the other was created
\* after it
ListedAfterDateChange ==
    /\ req.op = "list"
    /\ resp.status = 200
    /\ Len(resp.data.results) = 2
    /\ resp.data.results[1].date = "2026-02-15"
    /\ resp.data.results[2].date = "2026-01-01"
    /\ resp.data.results[1].created_at < resp.data.results[2].created_at

----------------------------------------------------------------------------
(* Deletion, under the requests of the owner isolation specification *)

\* The budgets of user u with this id
Owned(u, id) == {b \in budgets : b.user = u /\ b.id = id}

\* C20: a delete by the owner of an existing budget is answered 204 and
\* removes that budget and no other; retrieve, update and delete by a user of
\* an id under which no budget exists are answered 404 and change nothing;
\* the id of a deleted budget is never given to another budget
DeleteRemovesOne ==
    [][/\ \A u \in UserIds :
            (req'.op = "delete" /\ By(req', u) /\ Owned(u, req'.id) # {}) =>
                /\ resp'.status = 204
                /\ budgets' = budgets \ Owned(u, req'.id)
                /\ Cardinality(budgets') = Cardinality(budgets) - 1
       /\ \A u \in UserIds :
            (/\ req'.op \in {"retrieve", "put", "patch", "delete"}
             /\ By(req', u)
             /\ \A b \in budgets : b.id # req'.id) =>
                /\ resp'.status = 404
                /\ budgets' = budgets
       /\ \A b \in budgets' : b.id < nextBudgetId => \E a \in budgets : a.id = b.id
       /\ nextBudgetId' >= nextBudgetId
    ]_vars

\* C20 witness: the owner's delete of the first budget was answered 204 and
\* the budget is gone; the budget of another user, created after it, is
\* still there
DeletedAmongOthers ==
    /\ req.op = "delete"
    /\ resp.status = 204
    /\ req.id = 1
    /\ \A b \in budgets : b.id # req.id
    /\ \E b \in budgets : b.user # req.tok.uid /\ b.id > req.id

----------------------------------------------------------------------------
(* Updates: one user creates budgets and updates them field by field, also *)
(* with values for the fields the server sets                              *)

ServerSet == [id |-> 9, user |-> 2, created_at |-> 7]

FieldPatches ==
    {[title |-> <<" ", "b">>], [date |-> "2026-01-01"], [title |-> <<>>],
     [initial_amount |-> Dec(FALSE, 1, 0)] @@ ServerSet}

NextPatch ==
    \/ RegisterOne
    \/ create(Access(1), BudgetData(<<"a">>))
    \/ \E id \in BudgetIds, p \in FieldPatches : update(Access(1), id, p, TRUE)
    \/ \E id \in BudgetIds : update(Access(1), id, BudgetData(<<"a">>) @@ ServerSet, FALSE)

SpecPatch == Init /\ [][NextPatch]_vars

\* The budget with this id
BudgetById(rows, id) == CHOOSE b \in rows : b.id = id

\* C21: an update answered 200 leaves every other budget as it is and keeps
\* the id, the owner and created_at of the budget whatever the payload says
\* for them; a PATCH sets the writable fields of the payload to the values
\* sent, trimmed, and leaves the other writable fields as they were
UpdateTouchesSentFields ==
    [][(req'.op \in {"put", "patch"} /\ resp'.status = 200) =>
        /\ {b.id : b \in budgets'} = {b.id : b \in budgets}
        /\ \A b \in budgets : b.id # req'.id => b \in budgets'
        /\ LET old == BudgetById(budgets, req'.id)
               new == BudgetById(budgets', req'.id)
           IN  /\ new.id = old.id /\ new.user = old.user /\ new.created_at = old.created_at
               /\ req'.op = "patch" =>
                    \A f \in WritableFields :
                        IF f \notin DOMAIN req'.payload THEN new[f] = old[f]
                        ELSE IF f \in {"title", "description"} THEN new[f] = Strip(req'.payload[f])
                        ELSE new[f] = req'.payload[f]
    ]_vars

\* C21 witness: a PATCH that sent an amount together with an id, an owner
\* and a created_at was answered 200; the budget has the amount and still its
\* own id, owner and created_at, and the title and date that earlier PATCHes
\* gave it, while another budget exists
PatchedWithServerFields ==
    /\ req.op = "patch"
    /\ resp.status = 200
    /\ "created_at" \in DOMAIN req.payload
    /\ Cardinality(budgets) = 2
    /\ \E b \in budgets :
        /\ b.id = req.id /\ b.user = 1 /\ b.created_at = 0
        /\ b.title = <<"b">> /\ b.date = "2026-01-01"
        /\ b.initial_amount = Dec(FALSE, 1, 0)

----------------------------------------------------------------------------
(* Concurrent registrations, under the requests of the users specification *)

\* C22: when a register passed validation and, by the time it writes, another
\* register has inserted a user with the same username or the same email,
\* the request is answered 400 and no second user is created
ConcurrentRegisterRejected ==
    [][(/\ req'.op = "register_save"
        /\ \E u \in users : \/ u.username = req'.payload.username
                            \/ u.email = req'.payload.email) =>
            /\ resp'.status = 400
            /\ users' = users
    ]_vars

----------------------------------------------------------------------------
(* Concurrent budget requests: one user creates budgets, deletes them and  *)
(* sends updates whose fetch and save other requests may come between      *)

TitlePatch == [title |-> <<"b">>]
AmountPatch == [initial_amount |-> Dec(FALSE, 1, 0)]

NextConcurrent ==
    \/ RegisterOne
    \/ create(Access(1), BudgetData(<<"a">>))
    \/ \E id \in BudgetIds, p \in {TitlePatch, AmountPatch} : update_fetch(Access(1), id, p, TRUE)
    \/ \E id \in BudgetIds : update_fetch(Access(1), id, BudgetData(<<"c">>), FALSE)
    \/ \E r \in BagToSet(inflight) : update_save(r)
    \/ \E id \in BudgetIds : destroy(Access(1), id)

SpecConcurrent == Init /\ [][NextConcurrent]_vars

\* C23: no step brings a budget into the store under an id that was given
\* out before and is not in the store, so a budget that its owner deleted
\* stays deleted also when an update fetched it before the delete
DeletedStaysDeleted ==
    [][\A b \in budgets' : b.id < nextBudgetId => \E a \in budgets : a.id = b.id]_vars

\* C24: the save of a PATCH leaves the writable fields it did not send as
\* they are in the store at that time, so that of two PATCHes of disjoint
\* fields that overlap both take effect
PatchKeepsOtherFields ==
    [][(req'.op = "patch_save" /\ \E b \in budgets : b.id = req'.id) =>
        \A f \in WritableFields \ DOMAIN req'.payload :
            BudgetById(budgets', req'.id)[f] = BudgetById(budgets, req'.id)[f]
    ]_vars

----------------------------------------------------------------------------
(* Logouts of two users: both register and log in, and each sends logout   *)
(* with any of the refresh tokens issued                                   *)

NextLogout ==
    \/ RegisterNext
    \/ \E i \in 1..MaxUsers : login([username |-> Names[i], password |-> StrongPassword])
    \/ \E tok \in AccessTokens, t \in RefreshTokens : logout(tok, [refresh_token |-> t])
    \/ \E tok \in AccessTokens : me(tok)

SpecLogout == Init /\ [][NextLogout]_vars

\* C25: a logout whose refresh token was issued to another user than the one
\* its access token authenticates leaves the blacklist as it is
LogoutRecordsOwnTokenOnly ==
    [][(/\ req'.op = "logout"
        /\ ValidAccessToken(req'.tok)
        /\ Carries(req', "refresh_token")
        /\ req'.payload["refresh_token"].uid # req'.tok.uid) =>
            blacklist' = blacklist
    ]_vars

----------------------------------------------------------------------------
(* The frame of logout, under the sessions with a budget *)

\* C26: a logout changes neither users, budgets nor the tokens issued; the
\* request that follows a logout answered 200 with the same access token is
\* not answered 401, and any request with an unexpired access token issued
\* to a user who has logged out is authenticated: me answers 200 with that
\* user, the budget operations answer as for the owner
LogoutTouchesBlacklistOnly ==
    [][/\ req'.op = "logout" =>
            users' = users /\ budgets' = budgets /\ issued' = issued
       /\ (/\ req.op = "logout" /\ resp.status = 200
           /\ req'.op \in ProtectedOps /\ req'.tok = req.tok) =>
                resp'.status # 401
       /\ (/\ req'.op \in ProtectedOps
           /\ req'.tok \in issued /\ req'.tok.typ = "access" /\ req'.tok.exp > now
           /\ req'.tok.uid \in LoggedOut) =>
                /\ resp'.status # 401
                /\ req'.op = "me" => resp'.status = 200 /\ resp'.data.id = req'.tok.uid
                /\ req'.op = "create" => resp'.status = 201 /\ resp'.data.user = req'.tok.uid
                /\ req'.op = "list" => resp'.status = 200
    ]_vars

\* C26 witness: with the two tokens of a single login, the user logged out
\* and then created a budget with the same access token
CreatedAfterLogout ==
    /\ req.op = "create"
    /\ resp.status = 201
    /\ Cardinality(issued) = 2
    /\ Len(blacklist) > 0
    /\ blacklist[1].token.uid = req.tok.uid

====
